---- MODULE Spec2Model ----
(***************************************************************************)
(* The C boundary of the passtoken authentication engine (src/src/lib.rs)  *)
(* over the engine it calls (crate `core`, whose source is not part of     *)
(* src/: its operations are modelled from spec.md sections 3, 4 and 7).    *)
(*                                                                         *)
(* Text is a sequence of Unicode code points; a C string is the sequence   *)
(* of bytes in front of its terminating NUL.                               *)
(***************************************************************************)
EXTENDS Integers, Sequences, FiniteSets, Bags, TLC

\* ------------------------------------------------------------------ bounds
MaxUsers == 2
MaxTime == 2
MaxDur == 1
NThreads == 2

\* ------------------------------------------------------- text and C strings

\* A continuation byte of a UTF-8 sequence.
IsCont(b) == b >= 128 /\ b <= 191

\* Number of bytes of the UTF-8 sequence starting at bs[i], 0 when the bytes
\* there are not a valid sequence (core::str::from_utf8's validation).
Utf8Width(bs, i) ==
    LET b == bs[i]
        n == Len(bs)
        c(k) == i + k <= n /\ IsCont(bs[i + k])
    IN  IF b < 128 THEN 1
        ELSE IF b >= 194 /\ b <= 223 THEN (IF c(1) THEN 2 ELSE 0)
        ELSE IF b = 224 THEN (IF c(1) /\ c(2) /\ bs[i + 1] >= 160 THEN 3 ELSE 0)
        ELSE IF b = 237 THEN (IF c(1) /\ c(2) /\ bs[i + 1] <= 159 THEN 3 ELSE 0)
        ELSE IF b >= 225 /\ b <= 239 THEN (IF c(1) /\ c(2) THEN 3 ELSE 0)
        ELSE IF b = 240 THEN (IF c(1) /\ c(2) /\ c(3) /\ bs[i + 1] >= 144 THEN 4 ELSE 0)
        ELSE IF b = 244 THEN (IF c(1) /\ c(2) /\ c(3) /\ bs[i + 1] <= 143 THEN 4 ELSE 0)
        ELSE IF b >= 241 /\ b <= 243 THEN (IF c(1) /\ c(2) /\ c(3) THEN 4 ELSE 0)
        ELSE 0

\* The code point of the valid UTF-8 sequence of width w starting at bs[i].
Utf8Point(bs, i, w) ==
    IF w = 1 THEN bs[i]
    ELSE IF w = 2 THEN (bs[i] % 32) * 64 + (bs[i + 1] % 64)
    ELSE IF w = 3 THEN (bs[i] % 16) * 4096 + (bs[i + 1] % 64) * 64 + (bs[i + 2] % 64)
    ELSE (bs[i] % 8) * 262144 + (bs[i + 1] % 64) * 4096 + (bs[i + 2] % 64) * 64
         + (bs[i + 3] % 64)

RECURSIVE Utf8Decode(_, _)
\* The text of bytes bs from position i on: [ok, s].
Utf8Decode(bs, i) ==
    IF i > Len(bs) THEN [ok |-> TRUE, s |-> <<>>]
    ELSE LET w == Utf8Width(bs, i)
         IN  IF w = 0 THEN [ok |-> FALSE, s |-> <<>>]
             ELSE LET rest == Utf8Decode(bs, i + w)
                  IN  IF rest.ok
                      THEN [ok |-> TRUE, s |-> <<Utf8Point(bs, i, w)>> \o rest.s]
                      ELSE [ok |-> FALSE, s |-> <<>>]

\* CStr::from_ptr(p).to_str() of a non-null pointer to bytes bs.
to_str(bs) == Utf8Decode(bs, 1)

\* The UTF-8 bytes of one code point (what a caller holding text passes in).
Utf8Char(c) ==
    IF c < 128 THEN <<c>>
    ELSE IF c < 2048 THEN <<192 + (c \div 64), 128 + (c % 64)>>
    ELSE IF c < 65536 THEN <<224 + (c \div 4096), 128 + ((c \div 64) % 64), 128 + (c % 64)>>
    ELSE <<240 + (c \div 262144), 128 + ((c \div 4096) % 64), 128 + ((c \div 64) % 64),
           128 + (c % 64)>>

RECURSIVE Utf8Encode(_)
Utf8Encode(s) == IF s = <<>> THEN <<>> ELSE Utf8Char(Head(s)) \o Utf8Encode(Tail(s))

RECURSIVE UntilNul(_)
\* What a reader of a C buffer sees: the bytes in front of the first NUL.
UntilNul(bs) ==
    IF bs = <<>> \/ Head(bs) = 0 THEN <<>> ELSE <<Head(bs)>> \o UntilNul(Tail(bs))

\* The buffer login and verify_token hand back for text s: one c_char per
\* char (`x as c_char` keeps the low 8 bits), then a NUL.
NarrowChars(s) == [i \in 1..Len(s) |-> s[i] % 256] \o <<0>>

\* The C string the caller reads from that buffer.
ReturnedCStr(s) == UntilNul(NarrowChars(s))

\* ------------------------------------------------- the engine (crate `core`)
\* Modelled from spec.md: the engine's source is not under src/.

UserIds == 1..MaxUsers

\* Token values the engine's random source can produce: random bytes,
\* text-encoded, TokenLen chars long (spec.md 3, "Token"; 9).
TokenLen == 2
TokenPool == {<<65, 65>>, <<65, 66>>}

\* Structural validation of a token (spec.md 4.4, logout / verify_token).
WellFormed(t) == Len(t) = TokenLen

None == [some |-> FALSE, v |-> 0]
Some(x) == [some |-> TRUE, v |-> x]
NoText == [some |-> FALSE, s |-> <<>>]
SomeText(x) == [some |-> TRUE, s |-> x]

NoUser == [live |-> FALSE, email |-> <<>>, pw |-> <<>>, admin |-> FALSE]
NoTok == [live |-> FALSE, uid |-> 0, exp |-> None]

\* The salted password hash of the durable record (spec.md 3, "User record").
Hash(p) == <<0>> \o p

\* core::Auth: the two stores, the expiration setting, and the token values
\* already drawn (a fresh login always produces a new value, spec.md 4.4).
InitAuth(admins) ==
    [users |-> [u \in UserIds |->
                   IF u \in admins
                   THEN [live |-> TRUE, email |-> <<114>>, pw |-> Hash(<<112>>), admin |-> TRUE]
                   ELSE NoUser],
     tokens |-> [t \in TokenPool |-> NoTok],
     token_expire_time |-> None,
     issued |-> {}]

UidOf(A, email) == {u \in UserIds : A.users[u].live /\ A.users[u].email = email}
FreeIds(A) == {u \in UserIds : ~A.users[u].live}
MinOf(S) == CHOOSE x \in S : \A y \in S : x <= y

\* A session record is readable until its expiry has passed (spec.md 4.2).
Alive(rec, now) == rec.live /\ (rec.exp.some => now <= rec.exp.v)

\* Session Store Adapter delete_all_for(user_id).
DeleteAllFor(tokens, uids) ==
    [t \in TokenPool |-> IF tokens[t].live /\ tokens[t].uid \in uids THEN NoTok ELSE tokens[t]]

\* The session store's native expiry at time `now`.
Expire(tokens, now) ==
    [t \in TokenPool |-> IF Alive(tokens[t], now) THEN tokens[t] ELSE NoTok]

Fail(A, e) == [err |-> e, val |-> <<>>, A |-> A]
Done(A, v) == [err |-> "Ok", val |-> v, A |-> A]

\* env names the store that is down during the call ("none": both answer).
core_create_user(A, email, password, env) ==
    IF env = "pg" THEN Fail(A, "PostgresError")
    ELSE IF UidOf(A, email) # {} THEN Fail(A, "UserAlreadyExists")
    ELSE LET u == MinOf(FreeIds(A))
         IN  Done([A EXCEPT !.users[u] =
                      [live |-> TRUE, email |-> email, pw |-> Hash(password), admin |-> FALSE]],
                  <<>>)

core_login(A, now, email, password, fresh, env) ==
    IF env = "pg" THEN Fail(A, "PostgresError")
    ELSE IF UidOf(A, email) = {} THEN Fail(A, "UserDoesNotExist")
    ELSE LET u == MinOf(UidOf(A, email))
             exp == IF A.token_expire_time.some
                    THEN Some(now + A.token_expire_time.v) ELSE None
         IN  IF A.users[u].pw # Hash(password) THEN Fail(A, "IncorrectUsernameOrPassword")
             ELSE IF env = "lock" THEN Fail(A, "UnableToAquireTokenListLock")
             ELSE IF env = "redis" THEN Fail(A, "RedisError")
             ELSE Done([A EXCEPT !.tokens[fresh] = [live |-> TRUE, uid |-> u, exp |-> exp],
                                 !.issued = @ \cup {fresh}],
                       fresh)

core_logout(A, token, env) ==
    IF ~WellFormed(token) THEN Fail(A, "InvalidToken")
    ELSE IF env = "lock" THEN Fail(A, "UnableToAquireTokenListLock")
    ELSE IF env = "redis" THEN Fail(A, "RedisError")
    ELSE IF token \in TokenPool
         THEN Done([A EXCEPT !.tokens[token] = NoTok], <<>>)
         ELSE Done(A, <<>>)

core_verify_token(A, now, token, env) ==
    IF ~WellFormed(token) THEN Fail(A, "InvalidToken")
    ELSE IF env = "redis" THEN Fail(A, "RedisError")
    ELSE IF token \notin TokenPool \/ ~Alive(A.tokens[token], now)
         THEN Fail(A, "TokenDoesNotExist")
    ELSE Done(A, A.users[A.tokens[token].uid].email)

\* The identity a token resolves to (0: none).
Identity(A, now, token) ==
    IF core_verify_token(A, now, token, "none").err = "Ok" THEN A.tokens[token].uid ELSE 0

core_update_user(A, now, token, email, password, logout, env) ==
    LET v == core_verify_token(A, now, token, env)
        u == Identity(A, now, token)
    IN  IF v.err # "Ok" THEN Fail(A, v.err)
        ELSE IF env = "pg" THEN Fail(A, "PostgresError")
        ELSE IF email.some /\ UidOf(A, email.s) \ {u} # {} THEN Fail(A, "UserAlreadyExists")
        ELSE LET rec == [A.users[u] EXCEPT
                            !.email = IF email.some THEN email.s ELSE @,
                            !.pw = IF password.some THEN Hash(password.s) ELSE @]
                 toks == IF logout THEN DeleteAllFor(A.tokens, {u}) ELSE A.tokens
             IN  Done([A EXCEPT !.users[u] = rec, !.tokens = toks], <<>>)

\* As update_user, for a caller whose identity carries the administrative
\* role (spec.md 4.4; the taxonomy of spec.md 7 has no authorization error:
\* a caller without the role is refused as presenting no valid token).
core_admin_update_user(A, now, token, email, password, logout, env) ==
    LET v == core_verify_token(A, now, token, env)
        u == Identity(A, now, token)
    IN  IF v.err # "Ok" THEN Fail(A, v.err)
        ELSE IF ~A.users[u].admin THEN Fail(A, "InvalidToken")
        ELSE core_update_user(A, now, token, email, password, logout, env)

core_delete_user(A, now, token, env) ==
    LET v == core_verify_token(A, now, token, env)
        u == Identity(A, now, token)
    IN  IF v.err # "Ok" THEN Fail(A, v.err)
        ELSE IF env = "pg" THEN Fail(A, "PostgresError")
        ELSE Done([A EXCEPT !.users[u] = NoUser, !.tokens = DeleteAllFor(A.tokens, {u})], <<>>)

\* The administrative filter: an email, or "%" for every record.
Matches(filter, email) == filter = <<37>> \/ filter = email

\* The engine entry point the boundary calls takes the instance and the
\* filter only.
core_admin_delete_user(A, filter, env) ==
    LET hit == {u \in UserIds : A.users[u].live /\ Matches(filter, A.users[u].email)}
    IN  IF env = "pg" THEN Fail(A, "PostgresError")
        ELSE Done([A EXCEPT !.users = [u \in UserIds |-> IF u \in hit THEN NoUser ELSE @[u]],
                            !.tokens = DeleteAllFor(A.tokens, hit)], <<>>)

\* --------------------------------------------------- the C boundary (lib.rs)

get_error_code(err) ==
    CASE err = "UserAlreadyExists" -> -1
      [] err = "UserDoesNotExist" -> -2
      [] err = "IncorrectUsernameOrPassword" -> -3
      [] err = "InvalidToken" -> -4
      [] err = "TokenDoesNotExist" -> -5
      [] err = "UnableToAquireTokenListLock" -> -6
      [] err = "PostgresError" -> -7
      [] err = "RedisError" -> -8

\* A `*mut c_char` argument: null, or the bytes of the C string it points to.
NullPtr == [null |-> TRUE, bytes |-> <<>>]
Ptr(bs) == [null |-> FALSE, bytes |-> bs]

\* What a call hands back, with the engine state it leaves: status and code
\* (c_int results: the code alone, status Ok for 0), the C string returned,
\* whether the engine was invoked and with which optional fields, and whether
\* the process died in the call.
Ret(status, code, val, A, invoked) ==
    [status |-> status, code |-> code, val |-> val, A |-> A, invoked |-> invoked,
     gotE |-> NoText, gotP |-> NoText, crashed |-> FALSE]
error(code, A, invoked) == Ret("Err", code, <<>>, A, invoked)
\* IntRet reporting success whatever the engine answered.
IntRet_swallow(r, invoked) == Ret("Ok", 0, <<>>, r.A, invoked)

IntRet(r, invoked) ==
    IF r.err = "Ok" THEN Ret("Ok", 0, <<>>, r.A, invoked)
    ELSE error(get_error_code(r.err), r.A, invoked)
Crash(A) == [Ret("Err", 0, <<>>, A, FALSE) EXCEPT !.crashed = TRUE]

\* set_token_expire_time storing a duration one unit longer than given.
set_token_expire_time_late(A, time) ==
    IF ~time.some
    THEN [A EXCEPT !.token_expire_time = None]
    ELSE [A EXCEPT !.token_expire_time = Some(time.v + 1)]

\* set_token_expire_time applying the new setting to the tokens already held.
set_token_expire_time_restamp(A, time) ==
    [A EXCEPT !.token_expire_time = time,
              !.tokens = [k \in TokenPool |-> IF @[k].live THEN [@[k] EXCEPT !.exp = time]
                                                          ELSE @[k]]]

\* time: the pointee of a non-null `*mut c_ulong`, None for a null pointer.
set_token_expire_time(A, time) ==
    IF ~time.some
    THEN [A EXCEPT !.token_expire_time = None]
    ELSE [A EXCEPT !.token_expire_time = Some(time.v)]

create_user(A, email, password, env) ==
    LET e == to_str(email)
        p == to_str(password)
    IN  IF ~e.ok THEN error(-9, A, FALSE)
        ELSE IF ~p.ok THEN error(-9, A, FALSE)
        ELSE IntRet(core_create_user(A, e.s, p.s, env), TRUE)

login(A, now, email, password, fresh, env) ==
    LET e == to_str(email)
        p == to_str(password)
    IN  IF ~e.ok THEN error(-9, A, FALSE)
        ELSE IF ~p.ok THEN error(-9, A, FALSE)
        ELSE LET r == core_login(A, now, e.s, p.s, fresh, env)
             IN  IF r.err = "Ok" THEN Ret("Ok", 0, ReturnedCStr(r.val), r.A, TRUE)
                 ELSE error(get_error_code(r.err), r.A, TRUE)

\* logout returning success without handing the token to the engine.
logout_unrevoked(A, token, env) ==
    IF ~to_str(token).ok THEN error(-9, A, FALSE) ELSE Ret("Ok", 0, <<>>, A, FALSE)

logout(A, token, env) ==
    LET t == to_str(token)
    IN  IF ~t.ok THEN error(-9, A, FALSE)
        ELSE IntRet(core_logout(A, t.s, env), TRUE)

\* An optional text argument of update_user / admin_update_user, as the code
\* converts it: [ok, crashed, opt].  The conversion runs in the branch taken
\* for a NULL pointer, where CStr::from_ptr reads through address 0: undefined
\* behaviour, whose outcome ub is the process dying ("crash"), the branch
\* compiled away ("folded": the argument counts as absent), or bytes being
\* read there ("read", ub.bytes).  A non-null pointer is never read.
OptArg(arg, ub) ==
    IF arg.null
    THEN IF ub.kind = "crash" THEN [ok |-> FALSE, crashed |-> TRUE, opt |-> NoText]
         ELSE IF ub.kind = "folded" THEN [ok |-> TRUE, crashed |-> FALSE, opt |-> NoText]
         ELSE LET x == to_str(ub.bytes)
              IN  IF x.ok THEN [ok |-> TRUE, crashed |-> FALSE, opt |-> SomeText(x.s)]
                  ELSE [ok |-> FALSE, crashed |-> FALSE, opt |-> NoText]
    ELSE [ok |-> TRUE, crashed |-> FALSE, opt |-> NoText]

update_user(A, now, token, email, password, logout_, env, ub) ==
    LET t == to_str(token)
        e == OptArg(email, ub)
        p == OptArg(password, ub)
    IN  IF ~t.ok THEN error(-9, A, FALSE)
        ELSE IF e.crashed THEN Crash(A)
        ELSE IF ~e.ok THEN error(-9, A, FALSE)
        ELSE IF p.crashed THEN Crash(A)
        ELSE IF ~p.ok THEN error(-9, A, FALSE)
        ELSE [IntRet(core_update_user(A, now, t.s, e.opt, p.opt, logout_, env), TRUE)
                 EXCEPT !.gotE = e.opt, !.gotP = p.opt]

admin_update_user(A, now, token, email, password, logout_, env, ub) ==
    LET t == to_str(token)
        e == OptArg(email, ub)
        p == OptArg(password, ub)
    IN  IF ~t.ok THEN error(-9, A, FALSE)
        ELSE IF e.crashed THEN Crash(A)
        ELSE IF ~e.ok THEN error(-9, A, FALSE)
        ELSE IF p.crashed THEN Crash(A)
        ELSE IF ~p.ok THEN error(-9, A, FALSE)
        ELSE [IntRet(core_admin_update_user(A, now, t.s, e.opt, p.opt, logout_, env), TRUE)
                 EXCEPT !.gotE = e.opt, !.gotP = p.opt]

delete_user(A, now, token, env) ==
    LET t == to_str(token)
    IN  IF ~t.ok THEN error(-9, A, FALSE)
        ELSE IntRet(core_delete_user(A, now, t.s, env), TRUE)

admin_delete_user(A, filter, env) ==
    LET f == to_str(filter)
    IN  IF ~f.ok THEN error(-9, A, FALSE)
        ELSE IntRet(core_admin_delete_user(A, f.s, env), TRUE)

verify_token(A, now, token, env) ==
    LET t == to_str(token)
    IN  IF ~t.ok THEN error(-9, A, FALSE)
        ELSE LET r == core_verify_token(A, now, t.s, env)
             IN  IF r.err = "Ok"
                 THEN IF r.val # <<>> THEN Ret("Ok", 0, ReturnedCStr(r.val), r.A, TRUE)
                      ELSE error(1, r.A, TRUE)
                 ELSE error(get_error_code(r.err), r.A, TRUE)

\* ------------------------------------------------------------ the program

VARIABLES
    auth,       \* the core::Auth instance behind the `*mut core::Auth` handle
    now,        \* the clock the session store expires records by
    crashed,    \* the process died in a call
    sessions,   \* every token string login has returned, with the user logged
                \* in and the expiry the duration the caller had set gives it
    setArg,     \* the caller's latest argument to set_token_expire_time (with
                \* callers taking turns; concurrent callers leave it alone)
    loggedOut,  \* the issued token strings for which logout has returned 0
    waiting,    \* the calls in flight outside the token registry's guard, one
                \* per busy thread: a bag of their arguments and locals
    holder      \* the call in flight under the guard (NoCall: the guard is free)

vars == <<auth, now, crashed, sessions, setArg, loggedOut, waiting, holder>>

\* The arguments callers pass: C strings "\xC3\xA9" (U+00E9), "r", and
\* "\xFF", which is not valid UTF-8; passwords "p", "q".
BadText == <<255>>
CreateEmails == {<<195, 169>>, BadText}
LoginEmails == {<<195, 169>>, <<114>>}
Passwords == {<<112>>, <<113>>}
\* Token arguments: every string login can return, a string of the wrong
\* length, and bytes that are not text.
TokenArgs == {ReturnedCStr(t) : t \in TokenPool} \cup {<<65>>, BadText}
OptEmails == {NullPtr, Ptr(<<98>>), Ptr(BadText)}
OptPasswords == {NullPtr, Ptr(<<113>>)}
Filters == {<<37>>, <<195, 169>>, <<98>>, BadText}
Durations == {None} \cup {Some(d) : d \in 1..MaxDur}
Envs == {"none", "pg", "redis", "lock"}
\* Outcomes of the read through a null pointer in OptArg.
UBs == {[kind |-> "crash", bytes |-> <<>>], [kind |-> "folded", bytes |-> <<>>],
        [kind |-> "read", bytes |-> BadText]}

\* init_auth has connected to the stores; the durable store holds the
\* account of an earlier run, the administrator's.
\* A call in flight: the operation, its arguments, and for a login the
\* setting it read and when.
NoCall ==
    [op |-> "none", token |-> <<>>, email |-> <<>>, password |-> <<>>, time |-> None,
     read |-> None, at |-> 0]

Init ==
    /\ auth = InitAuth({1})
    /\ now = 0
    /\ crashed = FALSE
    /\ sessions = {}
    /\ setArg = None
    /\ loggedOut = {}
    /\ waiting = EmptyBag
    /\ holder = NoCall

\* The call returned r (or the process died in it).
Returned(r) ==
    /\ auth' = r.A
    /\ crashed' = r.crashed

\* The account a caller names by the email argument of a login that succeeds.
UserOf(A, email) == MinOf(UidOf(A, to_str(email).s))

\* The expiry the caller's setting gives a token issued now.
Expected == IF setArg.some THEN Some(now + setArg.v) ELSE None

CreateUser ==
    \E email \in CreateEmails, password \in {<<112>>}, env \in {"none", "pg"} :
        /\ ~crashed
        /\ FreeIds(auth) # {}
        /\ Returned(create_user(auth, email, password, env))
        /\ UNCHANGED <<now, sessions, setArg, loggedOut, waiting, holder>>

Login ==
    \E email \in LoginEmails, password \in Passwords, env \in Envs,
       fresh \in TokenPool \ auth.issued :
        LET r == login(auth, now, email, password, fresh, env)
        IN  /\ ~crashed
            /\ Returned(r)
            /\ sessions' = IF r.status = "Ok"
                           THEN sessions \cup {[token |-> r.val, uid |-> UserOf(auth, email),
                                                exp |-> Expected]}
                           ELSE sessions
            /\ UNCHANGED <<now, setArg, loggedOut, waiting, holder>>

Logout ==
    \E token \in TokenArgs, env \in {"none", "redis", "lock"} :
        LET r == logout(auth, token, env)
        IN  /\ ~crashed
            /\ Returned(r)
            /\ loggedOut' = IF r.code = 0 /\ token \in {x.token : x \in sessions}
                            THEN loggedOut \cup {token} ELSE loggedOut
            /\ UNCHANGED <<now, sessions, setArg, waiting, holder>>

VerifyToken ==
    \E token \in TokenArgs, env \in {"none", "redis"} :
        /\ ~crashed
        /\ Returned(verify_token(auth, now, token, env))
        /\ UNCHANGED <<now, sessions, setArg, loggedOut, waiting, holder>>

UpdateUser ==
    \E token \in TokenArgs, email \in OptEmails, password \in OptPasswords, flag \in BOOLEAN :
        \E ub \in IF email.null \/ password.null THEN UBs ELSE {CHOOSE u \in UBs : TRUE} :
            /\ ~crashed
            /\ Returned(update_user(auth, now, token, email, password, flag, "none", ub))
            /\ UNCHANGED <<now, sessions, setArg, loggedOut, waiting, holder>>

AdminUpdateUser ==
    \E token \in TokenArgs, email \in OptEmails, password \in OptPasswords, flag \in BOOLEAN :
        \E ub \in IF email.null \/ password.null THEN UBs ELSE {CHOOSE u \in UBs : TRUE} :
            /\ ~crashed
            /\ Returned(admin_update_user(auth, now, token, email, password, flag, "none", ub))
            /\ UNCHANGED <<now, sessions, setArg, loggedOut, waiting, holder>>

DeleteUser ==
    \E token \in TokenArgs, env \in {"none", "pg"} :
        /\ ~crashed
        /\ Returned(delete_user(auth, now, token, env))
        /\ UNCHANGED <<now, sessions, setArg, loggedOut, waiting, holder>>

AdminDeleteUser ==
    \E filter \in Filters, env \in {"none", "pg"} :
        /\ ~crashed
        /\ Returned(admin_delete_user(auth, filter, env))
        /\ UNCHANGED <<now, sessions, setArg, loggedOut, waiting, holder>>

SetTokenExpireTime ==
    \E time \in Durations :
        /\ ~crashed
        /\ auth' = set_token_expire_time(auth, time)
        /\ setArg' = time
        /\ UNCHANGED <<now, crashed, sessions, loggedOut, waiting, holder>>

\* Time passes; the session store drops the records whose expiry has passed.
Tick ==
    /\ ~crashed
    /\ now < MaxTime
    /\ now' = now + 1
    /\ auth' = [auth EXCEPT !.tokens = Expire(@, now + 1)]
    /\ UNCHANGED <<crashed, sessions, setArg, loggedOut, waiting, holder>>

Next ==
    \/ CreateUser
    \/ Login
    \/ Logout
    \/ VerifyToken
    \/ UpdateUser
    \/ AdminUpdateUser
    \/ DeleteUser
    \/ AdminDeleteUser
    \/ SetTokenExpireTime
    \/ Tick

Spec == Init /\ [][Next]_vars

\* ------------------------------------------------- concurrent callers
\* Threads of the host call login, logout and set_token_expire_time on one
\* instance.  A call suspends where the engine waits for the registry's
\* guard; set_token_expire_time stores into the instance with no guard, so a
\* login that reads the setting meanwhile races with it.

\* The durable store holds the administrator's account and the account of
\* U+00E9.
ConcInit ==
    /\ auth = [InitAuth({1}) EXCEPT !.users[2] =
                  [live |-> TRUE, email |-> <<233>>, pw |-> Hash(<<112>>), admin |-> FALSE]]
    /\ now = 0
    /\ crashed = FALSE
    /\ sessions = {}
    /\ setArg = None
    /\ loggedOut = {}
    /\ waiting = EmptyBag
    /\ holder = NoCall

\* The values a racing access to token_expire_time can see or leave among
\* the values S in play (a data race on a two-word Option<usize>): one of
\* them, or the tag of one with the payload of another.
Mixes(S) == S \cup (IF \E x \in S : x.some THEN {Some(v) : v \in 0..MaxDur} ELSE {})

\* The arguments of the stores into token_expire_time in flight in calls W.
Stores(W) == {c.time : c \in {x \in BagToSet(W) : x.op = "set"}}

RacyRead ==
    IF Stores(waiting) = {} THEN {auth.token_expire_time}
    ELSE Mixes({auth.token_expire_time} \cup Stores(waiting))

\* c: the storing call; the others in flight are waiting less c.
RacyWrite(c) ==
    IF Stores(waiting (-) SetToBag({c})) = {} THEN {c.time}
    ELSE Mixes({c.time} \cup Stores(waiting (-) SetToBag({c})))

\* The call gets as far as the wait for the registry's guard.
LoginPasses(email, password) ==
    /\ to_str(email).ok
    /\ to_str(password).ok
    /\ core_login(auth, now, to_str(email).s, to_str(password).s, <<>>, "lock").err
           = "UnableToAquireTokenListLock"

LogoutPasses(token) ==
    /\ to_str(token).ok
    /\ core_logout(auth, to_str(token).s, "lock").err = "UnableToAquireTokenListLock"

\* The calls in flight, and whether a thread is free to make another.
InFlight == BagCardinality(waiting) + (IF holder = NoCall THEN 0 ELSE 1)
FreeThread == InFlight < NThreads

\* The logins in flight; each will draw a token value.
LoggingIn ==
    BagCardinality([c \in {x \in BagToSet(waiting) : x.op = "login"} |-> waiting[c]])
        + (IF holder.op = "login" THEN 1 ELSE 0)

\* login up to the wait for the guard: the text conversion, the credential
\* check and the setting read.  A call that fails here returns at once.
LoginBegin ==
    \E email \in {<<195, 169>>, <<114>>}, password \in Passwords, read \in RacyRead :
        /\ FreeThread
        /\ Cardinality(auth.issued) + LoggingIn < Cardinality(TokenPool)
        /\ waiting' = IF LoginPasses(email, password)
                      THEN waiting (+) SetToBag({[NoCall EXCEPT
                               !.op = "login", !.email = email, !.password = password,
                               !.read = read, !.at = IF read.some THEN now ELSE 0]})
                      ELSE waiting
        /\ UNCHANGED <<auth, now, crashed, sessions, setArg, loggedOut, holder>>

\* logout up to the wait for the guard.
LogoutBegin ==
    \E token \in TokenArgs :
        /\ FreeThread
        /\ waiting' = IF LogoutPasses(token)
                      THEN waiting (+) SetToBag({[NoCall EXCEPT !.op = "logout", !.token = token]})
                      ELSE waiting
        /\ UNCHANGED <<auth, now, crashed, sessions, setArg, loggedOut, holder>>

\* The guard is free: a waiting call takes it.
Acquire ==
    \E c \in BagToSet(waiting) :
        /\ c.op \in {"login", "logout"}
        /\ holder = NoCall
        /\ holder' = c
        /\ waiting' = waiting (-) SetToBag({c})
        /\ UNCHANGED <<auth, now, crashed, sessions, setArg, loggedOut>>

\* The guard stays taken for the bounded wait: the call returns the
\* registry's error, and no session record is written or removed.
GiveUp ==
    \E c \in BagToSet(waiting) :
        LET r == IF c.op = "login"
                 THEN login(auth, c.at, c.email, c.password, <<>>, "lock")
                 ELSE logout(auth, c.token, "lock")
        IN  /\ c.op \in {"login", "logout"}
            /\ holder # NoCall
            /\ auth' = r.A
            /\ loggedOut' = IF c.op = "logout" /\ r.code = 0
                               /\ c.token \in {x.token : x \in sessions}
                            THEN loggedOut \cup {c.token} ELSE loggedOut
            /\ waiting' = waiting (-) SetToBag({c})
            /\ UNCHANGED <<now, crashed, sessions, setArg, holder>>

\* login under the guard: the token is drawn, the session record written
\* with the expiry computed from the setting as read, and the token string
\* returned.
LoginPut ==
    \E env \in {"none", "redis"}, fresh \in TokenPool \ auth.issued :
        LET c == holder
            r == login([auth EXCEPT !.token_expire_time = c.read], c.at, c.email, c.password,
                       fresh, env)
        IN  /\ c.op = "login"
            /\ auth' = [r.A EXCEPT !.token_expire_time = auth.token_expire_time]
            /\ sessions' = IF r.status = "Ok"
                           THEN sessions \cup {[token |-> r.val, uid |-> UserOf(auth, c.email),
                                                exp |-> IF c.read.some
                                                        THEN Some(c.at + c.read.v) ELSE None]}
                           ELSE sessions
            /\ holder' = NoCall
            /\ UNCHANGED <<now, crashed, setArg, loggedOut, waiting>>

\* logout under the guard.
LogoutDel ==
    \E env \in {"none", "redis"} :
        LET r == logout(auth, holder.token, env)
        IN  /\ holder.op = "logout"
            /\ auth' = r.A
            /\ loggedOut' = IF r.code = 0 /\ holder.token \in {x.token : x \in sessions}
                            THEN loggedOut \cup {holder.token} ELSE loggedOut
            /\ holder' = NoCall
            /\ UNCHANGED <<now, crashed, sessions, setArg, waiting>>

\* set_token_expire_time starts storing its argument.
SetBegin ==
    \E time \in Durations :
        /\ FreeThread
        /\ waiting' = waiting (+) SetToBag({[NoCall EXCEPT !.op = "set", !.time = time]})
        /\ UNCHANGED <<auth, now, crashed, sessions, setArg, loggedOut, holder>>

\* The store completes.  With another store in flight the words written by
\* the two can mix.
SetEnd ==
    \E c \in BagToSet(waiting) : \E time \in RacyWrite(c) :
        /\ c.op = "set"
        /\ auth' = set_token_expire_time(auth, time)
        /\ waiting' = waiting (-) SetToBag({c})
        /\ UNCHANGED <<now, crashed, sessions, setArg, loggedOut, holder>>

ConcTick ==
    /\ now < MaxTime
    /\ now' = now + 1
    /\ auth' = [auth EXCEPT !.tokens = Expire(@, now + 1)]
    /\ UNCHANGED <<crashed, sessions, setArg, loggedOut, waiting, holder>>

ConcNext ==
    \/ LoginBegin
    \/ LogoutBegin
    \/ Acquire
    \/ GiveUp
    \/ LoginPut
    \/ LogoutDel
    \/ SetBegin
    \/ SetEnd
    \/ ConcTick

ConcSpec == ConcInit /\ [][ConcNext]_vars

\* ------------------------------------------------------------ properties

\* An error result: no identity, no token.
Rejected(r) == r.status = "Err" /\ r.val = <<>>

\* The engine's token behind a token string login returned.
Behind(token) == {k \in TokenPool : ReturnedCStr(k) = token}

\* The issued token string is still held by the session store.
Held(token) == \E k \in Behind(token) : Alive(auth.tokens[k], now)

\* C1: once logout(t) has returned success for a token t issued by login,
\* verify_token(t) returns a rejection error, never an identity, in every
\* state any later sequence of operations (further logins included) reaches.
C1_RevokedStaysRejected ==
    \A t \in loggedOut : \A env \in {"none", "redis"} :
        Rejected(verify_token(auth, now, t, env))

\* A token was logged out and its user holds a session from another login.
C1_Witness ==
    \E s1 \in sessions, s2 \in sessions :
        /\ s1.token \in loggedOut
        /\ s2.uid = s1.uid
        /\ s2.token # s1.token
        /\ Held(s2.token)

\* C6, first half: a token issued at T under duration d is rejected by
\* verify_token at every time later than T + d, logout or not.
ExpiredRejected ==
    \A s \in sessions : \A env \in {"none", "redis"} :
        (s.exp.some /\ now > s.exp.v) => Rejected(verify_token(auth, now, s.token, env))

\* C6, second half: the passing of time alone never turns the answer for a
\* token issued with no duration set into a rejection.
TimeSparesUnlimited ==
    (now' = now + 1) =>
        \A s \in sessions :
            (~s.exp.some /\ verify_token(auth, now, s.token, "none").status = "Ok")
                => verify_token(auth', now', s.token, "none").status = "Ok"

\* C6: with a duration d set, a token issued at T is rejected at every time
\* later than T + d though never logged out; with none set, it is not
\* rejected on account of elapsed time.
C6_Expiry == []ExpiredRejected /\ [][TimeSparesUnlimited]_vars

\* A token that was never logged out, of an account that still exists, is
\* past the expiry its duration gave it.
C6_Witness ==
    \E s \in sessions :
        /\ s.exp.some
        /\ now > s.exp.v
        /\ s.token \notin loggedOut
        /\ auth.users[s.uid].live

\* C7, frame: a call of set_token_expire_time changes the instance's
\* setting, to its argument, and nothing else.
SetChangesSettingOnly ==
    (setArg' # setArg) => auth' = [auth EXCEPT !.token_expire_time = setArg']

\* C7, expiries: every token held carries the expiry computed from the
\* setting in force at its login.
ExpiryAsIssued ==
    \A s \in sessions : \A k \in Behind(s.token) :
        auth.tokens[k].live => auth.tokens[k].exp = s.exp

\* C7: set_token_expire_time changes only the setting; tokens issued before
\* the call keep their expiry, tokens issued after it get theirs from the new
\* setting (none when it was called with null).
C7_SettingOnly == []ExpiryAsIssued /\ [][SetChangesSettingOnly]_vars

\* Two tokens are held, one issued with no duration set and one issued after
\* a duration was set.
C7_Witness ==
    \E s1 \in sessions, s2 \in sessions :
        /\ Held(s1.token) /\ Held(s2.token)
        /\ ~s1.exp.some
        /\ s2.exp.some
        /\ setArg.some

Quiescent == InFlight = 0
Active == {k \in TokenPool : Alive(auth.tokens[k], now)}
Gone == {s \in sessions : s.token \in loggedOut \/ (s.exp.some /\ now > s.exp.v)}

\* C8: after any interleaving of concurrent login, logout and
\* set_token_expire_time calls, the active tokens number the successful
\* logins less the tokens revoked or expired, and each belongs to the user
\* whose login produced it.
C8_TokenSet ==
    Quiescent =>
        /\ Cardinality(Active) = Cardinality(sessions) - Cardinality(Gone)
        /\ \A k \in Active : \E s \in sessions :
               s.token = ReturnedCStr(k) /\ s.uid = auth.tokens[k].uid

\* Two users have logged in, one token was revoked and one is active.
C8_Witness ==
    /\ Quiescent
    /\ \E s1 \in sessions, s2 \in sessions : s1.uid # s2.uid /\ s1.token \in loggedOut
    /\ Cardinality(Active) = 1

\* The text a caller holds for text s.
Password(u) == Utf8Encode(Tail(auth.users[u].pw))
Email(A, u) == Utf8Encode(A.users[u].email)

\* C2: for every account, login with its email and password succeeds, and
\* verify_token of the token string login returned succeeds and returns
\* exactly that email.
C2_RoundTrip ==
    \A u \in UserIds : \A fresh \in TokenPool \ auth.issued :
        auth.users[u].live =>
            LET l == login(auth, now, Email(auth, u), Password(u), fresh, "none")
                v == verify_token(l.A, now, l.val, "none")
            IN  l.status = "Ok" /\ v.status = "Ok" /\ v.val = Email(auth, u)

\* The engine's change for an optional field is the argument: the value
\* supplied, or no change for a null argument.
AsSupplied(arg, got) ==
    IF arg.null THEN got = NoText ELSE got = SomeText(to_str(arg.bytes).s)

\* C3: update_user and admin_update_user hand the engine, for each optional
\* field, exactly the value the caller supplied, and no change for a null
\* argument, which leaves that field of the record as it was.
C3_OptionalFields ==
    \A s \in sessions : \A email \in OptEmails \ {Ptr(BadText)} :
    \A password \in OptPasswords : \A flag \in BOOLEAN : \A ub \in UBs :
        LET r1 == update_user(auth, now, s.token, email, password, flag, "none", ub)
            r2 == admin_update_user(auth, now, s.token, email, password, flag, "none", ub)
            ok(r) == /\ r.invoked => AsSupplied(email, r.gotE) /\ AsSupplied(password, r.gotP)
                     /\ (r.code = 0 /\ ~r.crashed /\ email.null)
                            => r.A.users[s.uid].email = auth.users[s.uid].email
                     /\ (r.code = 0 /\ ~r.crashed /\ password.null)
                            => r.A.users[s.uid].pw = auth.users[s.uid].pw
        IN  Held(s.token) => ok(r1) /\ ok(r2)

\* C4: after update_user(t, new_password = X, force_logout = true) returns
\* success, t and every other token of the user are rejected, and login with
\* the user's email and X succeeds.
C4_ForcedLogout ==
    \A s \in sessions : \A email \in OptEmails : \A ub \in UBs :
    \A fresh \in TokenPool \ auth.issued :
        LET r == update_user(auth, now, s.token, email, Ptr(<<113>>), TRUE, "none", ub)
        IN  (Held(s.token) /\ r.code = 0 /\ ~r.crashed) =>
                /\ \A s2 \in sessions :
                       s2.uid = s.uid => Rejected(verify_token(r.A, now, s2.token, "none"))
                /\ login(r.A, now, Email(r.A, s.uid), <<113>>, fresh, "none").status = "Ok"

\* Some token verify_token accepts resolves to an administrator.
AdminTokenHeld ==
    \E t \in TokenArgs :
        /\ verify_token(auth, now, t, "none").status = "Ok"
        /\ auth.users[Identity(auth, now, to_str(t).s)].admin

\* C5: admin_delete_user removes accounts or sessions only for a caller
\* presenting a token verify_token accepts and that carries the
\* administrative role.
C5_AdminOnly ==
    [][(AdminDeleteUser /\ (auth'.users # auth.users \/ auth'.tokens # auth.tokens))
           => AdminTokenHeld]_vars

\* C9: verify_token answers a malformed token (InvalidToken) and an absent or
\* expired one (TokenDoesNotExist) with the same status and code.
C9_SingleReject ==
    \A t1 \in TokenArgs, t2 \in TokenArgs :
        (/\ to_str(t1).ok /\ to_str(t2).ok
         /\ core_verify_token(auth, now, to_str(t1).s, "none").err = "InvalidToken"
         /\ core_verify_token(auth, now, to_str(t2).s, "none").err = "TokenDoesNotExist")
        => LET r1 == verify_token(auth, now, t1, "none")
               r2 == verify_token(auth, now, t2, "none")
           IN  r1.status = r2.status /\ r1.code = r2.code

\* Every call of a boundary operation on the current state that returns,
\* tagged with whether an argument passed was not valid text.
Outcomes ==
    LET bad(bs) == ~to_str(bs).ok
        opt(a) == ~a.null /\ bad(a.bytes)
    IN  {[bad |-> bad(e) \/ bad(p), r |-> create_user(auth, e, p, env)] :
            e \in CreateEmails, p \in Passwords, env \in Envs}
        \cup {[bad |-> bad(e) \/ bad(p), r |-> login(auth, now, e, p, k, env)] :
            e \in LoginEmails \cup {BadText}, p \in Passwords, k \in TokenPool, env \in Envs}
        \cup {[bad |-> bad(t), r |-> logout(auth, t, env)] : t \in TokenArgs, env \in Envs}
        \cup {[bad |-> bad(t), r |-> verify_token(auth, now, t, env)] :
            t \in TokenArgs, env \in Envs}
        \cup {[bad |-> bad(t), r |-> delete_user(auth, now, t, env)] :
            t \in TokenArgs, env \in Envs}
        \cup {[bad |-> bad(f), r |-> admin_delete_user(auth, f, env)] :
            f \in Filters, env \in Envs}
        \cup {[bad |-> bad(t) \/ opt(e) \/ opt(p),
               r |-> update_user(auth, now, t, e, p, flag, env, ub)] :
            t \in TokenArgs, e \in OptEmails, p \in OptPasswords, flag \in BOOLEAN,
            env \in Envs, ub \in UBs}
        \cup {[bad |-> bad(t) \/ opt(e) \/ opt(p),
               r |-> admin_update_user(auth, now, t, e, p, flag, env, ub)] :
            t \in TokenArgs, e \in OptEmails, p \in OptPasswords, flag \in BOOLEAN,
            env \in Envs, ub \in UBs}

\* C10: success is 0 (or status Ok), every failure carries one of the codes
\* -1 to -9, and a call with an argument that is not valid text returns -9
\* without the engine being invoked or its state changed.
C10_ClosedCodes ==
    \A o \in Outcomes :
        ~o.r.crashed =>
            /\ o.r.status = "Ok" => o.r.code = 0
            /\ o.r.status = "Err" => o.r.code \in -9..-1
            /\ o.bad => o.r.code = -9 /\ ~o.r.invoked /\ o.r.A = auth

====
